---------------------------- MODULE Spec2Model ----------------------------
(***************************************************************************)
(* Model of davda54/t5-lumi:                                               *)
(*   src/no_tokenize.py  Processor.load_and_tokenize, Processor.save       *)
(*   src/train.py        load_dataset, training_epoch, save, __main__      *)
(*                                                                         *)
(* Specifications:                                                         *)
(*   SpecTok   Processor.load_and_tokenize over two input files            *)
(*   SpecSave  Processor.save over the documents held by the Processor     *)
(*   Spec      the training job of train.py: WorldSize ranks, epochs,      *)
(*             checkpoints, job crashes and relaunches                     *)
(*   SpecArgs  the merge of the parsed and the checkpointed namespace on   *)
(*             the resume path of train.py                                 *)
(*   SpecEnv   the values every rank derives from the process environment  *)
(*             (local device, shard index, shuffling seed), over world     *)
(*             sizes, devices per node, seeds and numbers of shards        *)
(*   SpecOut   Processor.save of all ranks of the tokenizing job at once   *)
(*                                                                         *)
(* A blocking collective (all_reduce, the gradient synchronization of      *)
(* backward) completes when every rank has entered the same collective;    *)
(* ranks that wait in different collectives stay blocked until the job is  *)
(* killed.  The model, optimizer, scheduler and scaler states are          *)
(* abstracted to the number of updates each has received.                  *)
(***************************************************************************)
EXTENDS Integers, Sequences, FiniteSets, TLC

(***************************************************************************)
(* Bounds of the model.                                                    *)
(***************************************************************************)
\* total number of lines in the two input files of one rank
MaxLines == 5
\* number of documents held by the Processor when save starts
MaxDocs == 9
\* largest SLURM_PROCID of the tokenizing job
MaxRank == 1
\* WORLD_SIZE of the training job
WorldSize == 2
\* number of nor_clean_*.pickle.gz files in input_dir
NFiles == 3
\* epochs 0..MaxEpoch-1 are run
MaxEpoch == 4
\* number of times the training job is launched
MaxRuns == 2
\* largest WORLD_SIZE of the jobs of SpecEnv
MaxWorld == 3
\* largest SLURM_GPUS_ON_NODE of the jobs of SpecEnv
MaxGpus == 2
\* largest number of nor_clean_*.pickle.gz files of the jobs of SpecEnv
MaxTrainFiles == 4

(***************************************************************************)
(* Program constants.                                                      *)
(***************************************************************************)
\* for i in range(8) / self.documents[i::8] / RANK * 8 + i
NShards == 8
\* len(train_data) // batch_size is divided by 16 before the reduction
EpochDivisor == 16
\* parser.add_argument('--seed', type=int, default=42)
DefaultSeed == 42

Min(a, b) == IF a <= b THEN a ELSE b

(***************************************************************************)
(* no_tokenize.py: lines, stripping, tokenizing.                           *)
(* A line is a sequence of pieces; a piece is a word, a blank " " or a     *)
(* control character "~" that the tokenizer's normalizer removes.          *)
(***************************************************************************)
Whitespace == {" "}

\* the wordpiece vocabulary: piece -> token id
Vocab == [hello |-> 1, world |-> 2, foo |-> 3, bar |-> 4]

\* the raw lines a file may hold (the trailing newline is implicit)
RawLines ==
  { <<>>, <<" ">>, <<"hello", " ", "world">>, <<"foo">>, <<"bar">>, <<"~">> }

RECURSIVE LStrip(_)
LStrip(line) ==
  IF line # <<>> /\ Head(line) \in Whitespace THEN LStrip(Tail(line)) ELSE line

RECURSIVE RStrip(_)
RStrip(line) ==
  IF line # <<>> /\ line[Len(line)] \in Whitespace
    THEN RStrip(SubSeq(line, 1, Len(line) - 1))
    ELSE line

\* line = line.strip()
Strip(line) == RStrip(LStrip(line))

\* tokenizer.encode(line, is_pretokenized=False, add_special_tokens=False).ids
RECURSIVE Encode(_)
Encode(line) ==
  IF line = <<>> THEN <<>>
  ELSE IF Head(line) \in DOMAIN Vocab
         THEN <<Vocab[Head(line)]>> \o Encode(Tail(line))
         ELSE Encode(Tail(line))

\* self.documents.append([])
AppendDocument(docs) == Append(docs, <<>>)

\* self.documents[-1].append(np.array(tokens))
AppendToLast(docs, tokens) ==
  [docs EXCEPT ![Len(docs)] = Append(docs[Len(docs)], tokens)]

\* if len(tokens) > 0: self.documents[-1].append(np.array(tokens))
ProcessTokens(docs, tokens) ==
  IF Len(tokens) > 0 THEN AppendToLast(docs, tokens) ELSE docs

\* the body of the for loop over one line
ProcessLine(docs, raw) ==
  LET line == Strip(raw) IN
  IF line = <<>> THEN AppendDocument(docs)
  ELSE ProcessTokens(docs, Encode(line))

\* faulty variant: empty documents are kept
RemoveEmptyKeep(docs) == docs

\* [document for document in self.documents if len(document) > 0]
RemoveEmpty(docs) == SelectSeq(docs, LAMBDA d : Len(d) > 0)

(***************************************************************************)
(* no_tokenize.py: Processor.save.                                         *)
(***************************************************************************)
\* faulty variant: a slice that starts one element late
SliceLate(docs, start, step) ==
  [k \in 1..(IF Len(docs) > start + 1
               THEN (Len(docs) - start - 2) \div step + 1 ELSE 0)
     |-> docs[start + 1 + (k - 1) * step + 1]]

\* self.documents[i::8]: the elements at start, start+step, ... below len
RECURSIVE Slice(_, _, _)
Slice(docs, start, step) ==
  IF start >= Len(docs) THEN <<>>
  ELSE <<docs[start + 1]>> \o Slice(docs, start + step, step)

\* faulty variant: the rank is not scaled by the number of shards
OutputIndexSum(rank, i) == rank + i

\* self.output_path.format(RANK * 8 + i)
OutputIndex(rank, i) == rank * NShards + i

\* the output names any rank of the job may write
OutputNames == 0..(MaxRank * NShards + NShards - 1)

\* a file that does not exist
Absent == [exists |-> FALSE, complete |-> FALSE, docs |-> <<>>]

\* the documents the Processor may hold when save starts
DocValues == { << <<1, 2>> >>, << <<3>>, <<4>> >> }

RECURSIVE SeqsUpTo(_, _)
SeqsUpTo(S, n) ==
  IF n = 0 THEN { <<>> }
  ELSE LET shorter == SeqsUpTo(S, n - 1) IN
       shorter \cup { Append(s, x) : s \in { t \in shorter : Len(t) = n - 1 }, x \in S }

(***************************************************************************)
(* train.py: values.                                                       *)
(***************************************************************************)
Ranks == 0..(WorldSize - 1)

\* utils.is_main_process(): the rank that logs and writes the checkpoint
IsMainProcess(r) == r = 0

\* --max_steps and --batch_size as given on the command line
MaxStepsSet == {3}
BatchSizes == {2}

\* len(train_data) of a loaded shard
DataLens == {1, 10, 70}

\* parse_arguments(): the namespace of one launch
ParseArguments(ms, bs, path) ==
  [max_steps |-> ms, batch_size |-> bs, checkpoint_path |-> path]

\* faulty variant: the command line wins over the checkpoint
MergeArgsCli(cli_args, checkpoint_args) ==
  [k \in DOMAIN cli_args \cup DOMAIN checkpoint_args |->
     IF k \in DOMAIN cli_args THEN cli_args[k] ELSE checkpoint_args[k]]

\* args = vars(args).copy(); args.update(vars(checkpoint_args))
MergeArgs(cli_args, checkpoint_args) ==
  [k \in DOMAIN cli_args \cup DOMAIN checkpoint_args |->
     IF k \in DOMAIN checkpoint_args THEN checkpoint_args[k] ELSE cli_args[k]]

\* setup_training: the fields it assigns to args
SetupTraining(a) ==
  [k \in DOMAIN a \cup {"n_training_files", "device_max_steps"} |->
     CASE k = "n_training_files" -> NFiles
       [] k = "device_max_steps" -> a["max_steps"]
       [] OTHER -> a[k]]

NoArgs == SetupTraining(ParseArguments(0, 0, "none"))

\* a checkpoint file that does not exist / checkpoint = None
NoFile ==
  [exists |-> FALSE, complete |-> FALSE, model |-> 0, optimizer |-> 0,
   grad_scaler |-> 0, scheduler |-> 0, global_step |-> 0, epoch |-> 0,
   args |-> NoArgs]

\* a checkpoint file that torch.save has opened and not finished
PartialFile == [NoFile EXCEPT !.exists = TRUE]

\* torch.load succeeds on the file
Loadable(f) == f.exists /\ f.complete

\* faulty variant: the number of batches is reduced as it is
LocalLengthFull(n, bs) == n \div bs

\* torch.tensor(len(train_data) // batch_size) // 16
LocalLength(n, bs) == (n \div bs) \div EpochDivisor

\* len(train_dataloader) with drop_last=True
NumBatches(n, bs) == n \div bs

\* torch.distributed.all_reduce(min_length, ReduceOp.MIN)
ReduceMin(t) == CHOOSE m \in { t[r] : r \in Ranks } : \A q \in Ranks : m <= t[q]

\* utils.get_rank() of the process with SLURM_PROCID rank
GetRank(rank) == rank

\* utils.get_world_size() of a job with WORLD_SIZE world_size
GetWorldSize(world_size) == world_size

\* faulty variant: rank and epoch exchanged
TrainIndexSwapped(rank, e, world_size, n) ==
  (GetRank(rank) * GetWorldSize(world_size) + e) % n

\* (get_rank() + epoch * get_world_size()) % args.n_training_files
TrainIndexOf(rank, e, world_size, n) ==
  (GetRank(rank) + e * GetWorldSize(world_size)) % n

\* load_dataset's train_index on rank r of the job of WorldSize ranks
TrainIndex(r, e, a) == TrainIndexOf(r, e, WorldSize, a["n_training_files"])

\* faulty variant: the epoch is not scaled by the world size
ShuffleSeedFlat(seed, rank, e, world_size) == seed + GetRank(rank) + e

\* faulty variant: the rank is left out of the seed
ShuffleSeedNoRank(seed, rank, e, world_size) ==
  seed + e * GetWorldSize(world_size)

\* args.seed + get_rank() + epoch * get_world_size()
ShuffleSeed(seed, rank, e, world_size) ==
  seed + GetRank(rank) + e * GetWorldSize(world_size)

\* faulty variant: the node index is not scaled by gpus_per_node
LocalRankUnscaled(rank, gpus_per_node) == rank - (rank \div gpus_per_node)

\* local_rank = rank - gpus_per_node * (rank // gpus_per_node)
LocalRank(rank, gpus_per_node) ==
  rank - gpus_per_node * (rank \div gpus_per_node)

\* values of --seed
BaseSeeds == {0, DefaultSeed}

\* if global_step >= args.device_max_steps or local_step >= max_local_steps - 1
ExitEpoch(gs, ls, mls, a) == gs >= a["device_max_steps"] \/ ls >= mls - 1

\* faulty variant: the resumed run repeats the saved epoch
InitialEpochSame(ckpt) == ckpt.epoch

\* initial_epoch = checkpoint["epoch"] + 1
InitialEpoch(ckpt) == ckpt.epoch + 1

\* faulty variant: the model weights are not restored
LoadModelFresh(ckpt) == 0

\* model.load_state_dict(checkpoint["model"], strict=False)
LoadModel(ckpt) == ckpt.model

(***************************************************************************)
(* train.py: the namespaces the resume path merges.                        *)
(***************************************************************************)
\* the fields parse_arguments() always sets
CliFields == {"max_steps", "batch_size", "checkpoint_path"}

\* the fields a checkpoint's args may hold: those of the command line of
\* the run that wrote it, and the ones that run added to its namespace
CkptFields == CliFields \cup {"wandb_id", "n_training_files"}

\* the fields setup_training assigns
SetupFields == {"n_training_files", "device_max_steps"}

CliValues ==
  [max_steps |-> {2, 3}, batch_size |-> {1, 2}, checkpoint_path |-> {"bin", "tmp"}]

CkptValues ==
  [max_steps |-> {3}, batch_size |-> {2}, checkpoint_path |-> {"none"},
   wandb_id |-> {"id0"}, n_training_files |-> {NFiles, NFiles + 1}]

\* the namespaces over some of the fields, each field absent or set
RECURSIVE Namespaces(_, _)
Namespaces(fields, V) ==
  IF fields = {} THEN { [k \in {} |-> 0] }
  ELSE LET k == CHOOSE x \in fields : TRUE
           rest == Namespaces(fields \ {k}, V)
       IN  rest \cup { [j \in DOMAIN f \cup {k} |-> IF j = k THEN v ELSE f[j]] :
                         f \in rest, v \in V[k] }

VARIABLES
  ppc,           \* position of the Processor's script
  RANK,          \* SLURM_PROCID of the tokenizing process
  ncc,           \* lines of the NCC file, as read so far
  c4,            \* lines of the C4 file, as read so far
  documents,     \* self.documents
  total_tokens,  \* total_tokens
  save_i,        \* loop variable i of save
  out            \* the output files, by index

pvars == <<ppc, RANK, ncc, c4, documents, total_tokens, save_i, out>>

VARIABLES
  runs,             \* launches of the training job so far
  args,             \* the resolved argparse namespace of the running job
  checkpoint,       \* the loaded checkpoint, NoFile for None
  initial_epoch,    \* initial_epoch
  pc,               \* position of each rank
  epoch,            \* epoch of each rank
  global_step,      \* global_step of each rank
  local_step,       \* local_step of each rank, -1 before the first batch
  start_step,       \* global_step on entry to training_epoch
  data_len,         \* len(train_data) of each rank
  train_index,      \* index of the shard each rank loaded
  max_local_steps,  \* the min_length tensor of each rank
  model,            \* optimizer updates applied to the rank's parameters
  optimizer,        \* updates recorded in the optimizer state
  scheduler,        \* scheduler.step() calls in the scheduler state
  grad_scaler,      \* grad_scaler.update() calls in the scaler state
  bin,              \* {output_dir}/model.bin
  tmp,              \* {output_dir}/model.bin_tmp
  renamed,          \* the running save renamed model.bin to model.bin_tmp
  crash_pc,         \* position of rank 0 when the job was last killed
  rpc,              \* position of the resume path of __main__
  rcli,             \* the freshly parsed namespace
  rckpt,            \* checkpoint["args"]
  rargs             \* args

rankvars == <<pc, epoch, global_step, local_step, start_step, data_len,
              train_index, max_local_steps, model, optimizer, scheduler,
              grad_scaler>>

jobvars == <<runs, args, checkpoint, initial_epoch>>

filevars == <<bin, tmp, renamed, crash_pc>>

resumevars == <<rpc, rcli, rckpt, rargs>>

VARIABLES
  env,           \* WORLD_SIZE, SLURM_GPUS_ON_NODE, --seed, n_training_files
  jpc,           \* position of the job's ranks, which here move together
  jepoch,        \* epoch
  saved,         \* checkpoint["epoch"] of model.bin, -1 without a checkpoint
  resumed,       \* the running job was started from a checkpoint
  local_rank,    \* local_rank of each rank
  shard,         \* train_index of each rank in the current epoch
  seed,          \* the seed given to create_train_dataloader on each rank
  loaded         \* every (rank, epoch, train_index, seed) used so far

envvars == <<env, jpc, jepoch, saved, resumed, local_rank, shard, seed, loaded>>

VARIABLES
  wi,            \* loop variable i of save, of each rank
  wopen,         \* the rank is inside its with gzip.open(...) block
  owners         \* the ranks that have opened each output file for writing

outvars == <<wi, wopen, owners>>

xvars == <<envvars, outvars>>

tvars == <<jobvars, rankvars, filevars, resumevars, xvars>>

vars == <<pvars, tvars>>

(***************************************************************************)
(* train.py: the state of a job that is not running.                       *)
(***************************************************************************)
RanksOff ==
  /\ pc = [r \in Ranks |-> "off"]
  /\ epoch = [r \in Ranks |-> 0]
  /\ global_step = [r \in Ranks |-> 0]
  /\ local_step = [r \in Ranks |-> -1]
  /\ start_step = [r \in Ranks |-> 0]
  /\ data_len = [r \in Ranks |-> 0]
  /\ train_index = [r \in Ranks |-> 0]
  /\ max_local_steps = [r \in Ranks |-> 0]
  /\ model = [r \in Ranks |-> 0]
  /\ optimizer = [r \in Ranks |-> 0]
  /\ scheduler = [r \in Ranks |-> 0]
  /\ grad_scaler = [r \in Ranks |-> 0]

TrainIdle ==
  /\ runs = 0
  /\ args = NoArgs
  /\ checkpoint = NoFile
  /\ initial_epoch = 0
  /\ RanksOff
  /\ bin = NoFile
  /\ tmp = NoFile
  /\ renamed = FALSE
  /\ crash_pc = "none"

ResumeIdle ==
  /\ rpc = "idle"
  /\ rcli = [k \in {} |-> 0]
  /\ rckpt = [k \in {} |-> 0]
  /\ rargs = [k \in {} |-> 0]

ProcIdle ==
  /\ ppc = "new"
  /\ RANK = 0
  /\ ncc = <<>>
  /\ c4 = <<>>
  /\ documents = <<>>
  /\ total_tokens = 0
  /\ save_i = 0
  /\ out = [n \in OutputNames |-> Absent]

NotRunning == \A r \in Ranks : pc[r] \in {"off", "done"}

\* the ranks of a job of w processes
RanksOf(w) == 0..(w - 1)

\* the tokenizing job's ranks
TokRanks == 0..MaxRank

EnvIdle ==
  /\ env = [world_size |-> 1, gpus_per_node |-> 1, seed |-> 0,
            n_training_files |-> 1]
  /\ jpc = "idle"
  /\ jepoch = 0
  /\ saved = -1
  /\ resumed = FALSE
  /\ local_rank = [r \in RanksOf(1) |-> 0]
  /\ shard = [r \in RanksOf(1) |-> 0]
  /\ seed = [r \in RanksOf(1) |-> 0]
  /\ loaded = {}

OutIdle ==
  /\ wi = [r \in TokRanks |-> 0]
  /\ wopen = [r \in TokRanks |-> FALSE]
  /\ owners = [n \in OutputNames |-> {}]

OthersIdle == EnvIdle /\ OutIdle

(***************************************************************************)
(* Processor.load_and_tokenize                                             *)
(***************************************************************************)
\* self.documents = [[]]; total_tokens = 0; open the first file
LoadBegin ==
  /\ ppc = "new"
  /\ ppc' = "ncc"
  /\ documents' = << <<>> >>
  /\ total_tokens' = 0
  /\ UNCHANGED <<tvars, RANK, ncc, c4, save_i, out>>

\* one iteration of the loop over reader.readlines()
ReadLine(raw) ==
  /\ ppc \in {"ncc", "c4"}
  /\ Len(ncc) + Len(c4) < MaxLines
  /\ IF ppc = "ncc"
       THEN ncc' = Append(ncc, raw) /\ c4' = c4
       ELSE c4' = Append(c4, raw) /\ ncc' = ncc
  /\ documents' = ProcessLine(documents, raw)
  /\ total_tokens' = total_tokens + Len(Encode(Strip(raw)))
  /\ UNCHANGED <<tvars, ppc, RANK, save_i, out>>

\* the first file is exhausted: the loop over paths opens the second
NextFile ==
  /\ ppc = "ncc"
  /\ ppc' = "c4"
  /\ UNCHANGED <<tvars, RANK, ncc, c4, documents, total_tokens, save_i, out>>

\* the second file is exhausted: remove empty documents
LoadEnd ==
  /\ ppc = "c4"
  /\ ppc' = "loaded"
  /\ documents' = RemoveEmpty(documents)
  /\ UNCHANGED <<tvars, RANK, ncc, c4, total_tokens, save_i, out>>

(***************************************************************************)
(* Processor.save                                                          *)
(***************************************************************************)
\* for i in range(8): the loop is entered
SaveBegin ==
  /\ ppc = "loaded"
  /\ ppc' = "saving"
  /\ save_i' = 0
  /\ UNCHANGED <<tvars, RANK, ncc, c4, documents, total_tokens, out>>

\* gzip.open(path, mode='wb'): the file exists under its final name, truncated
SaveOpen ==
  /\ ppc = "saving"
  /\ save_i < NShards
  /\ ppc' = "writing"
  /\ out' = [out EXCEPT ![OutputIndex(RANK, save_i)] =
               [exists |-> TRUE, complete |-> FALSE, docs |-> <<>>]]
  /\ UNCHANGED <<tvars, RANK, ncc, c4, documents, total_tokens, save_i>>

\* pickle.dump(self.documents[i::8], f); the with block closes the file
SaveDump ==
  /\ ppc = "writing"
  /\ out' = [out EXCEPT ![OutputIndex(RANK, save_i)] =
               [exists |-> TRUE, complete |-> TRUE,
                docs |-> Slice(documents, save_i, NShards)]]
  /\ save_i' = save_i + 1
  /\ ppc' = IF save_i + 1 < NShards THEN "saving" ELSE "saved"
  /\ UNCHANGED <<tvars, RANK, ncc, c4, documents, total_tokens>>

\* the process is killed inside save
SaveCrash ==
  /\ ppc \in {"saving", "writing"}
  /\ ppc' = "crashed"
  /\ UNCHANGED <<tvars, RANK, ncc, c4, documents, total_tokens, save_i, out>>

(***************************************************************************)
(* Specifications of the tokenizing script.                                *)
(***************************************************************************)
\* the rank only selects the two input files, whose lines are arbitrary
InitTok ==
  /\ OthersIdle
  /\ TrainIdle
  /\ ResumeIdle
  /\ ppc = "new"
  /\ RANK = 0
  /\ ncc = <<>>
  /\ c4 = <<>>
  /\ documents = <<>>
  /\ total_tokens = 0
  /\ save_i = 0
  /\ out = [n \in OutputNames |-> Absent]

NextTok ==
  \/ LoadBegin
  \/ \E raw \in RawLines : ReadLine(raw)
  \/ NextFile
  \/ LoadEnd

SpecTok == InitTok /\ [][NextTok]_vars

InitSave ==
  /\ OthersIdle
  /\ TrainIdle
  /\ ResumeIdle
  /\ ppc = "loaded"
  /\ RANK \in 0..MaxRank
  /\ ncc = <<>>
  /\ c4 = <<>>
  /\ documents \in SeqsUpTo(DocValues, MaxDocs)
  /\ total_tokens = 0
  /\ save_i = 0
  /\ out = [n \in OutputNames |-> Absent]

NextSave ==
  \/ SaveBegin
  \/ SaveOpen
  \/ SaveDump
  \/ SaveCrash

SpecSave == InitSave /\ [][NextSave]_vars

(***************************************************************************)
(* train.py: __main__ up to the epoch loop, on every rank of the job.      *)
(***************************************************************************)
\* the state every rank has when it enters the epoch loop
EnterLoop(e, gs, m, o, sc, g) ==
  /\ pc' = [r \in Ranks |-> "load"]
  /\ epoch' = [r \in Ranks |-> e]
  /\ global_step' = [r \in Ranks |-> gs]
  /\ local_step' = [r \in Ranks |-> -1]
  /\ start_step' = [r \in Ranks |-> gs]
  /\ data_len' = [r \in Ranks |-> 0]
  /\ train_index' = [r \in Ranks |-> 0]
  /\ max_local_steps' = [r \in Ranks |-> 0]
  /\ model' = [r \in Ranks |-> m]
  /\ optimizer' = [r \in Ranks |-> o]
  /\ scheduler' = [r \in Ranks |-> sc]
  /\ grad_scaler' = [r \in Ranks |-> g]

\* args.checkpoint_path is None: checkpoint, initial_epoch, global_step = None, 0, 0
LaunchFresh(ms, bs) ==
  /\ NotRunning
  /\ runs < MaxRuns
  /\ runs' = runs + 1
  /\ args' = SetupTraining(ParseArguments(ms, bs, "none"))
  /\ checkpoint' = NoFile
  /\ initial_epoch' = 0
  /\ EnterLoop(0, 0, 0, 0, 0, 0)
  /\ renamed' = FALSE
  /\ crash_pc' = "none"
  /\ UNCHANGED <<bin, tmp, pvars, xvars, resumevars>>

\* args.checkpoint_path names file f: torch.load, the merge of the
\* namespaces, prepare_model_and_optimizer with the checkpoint
LaunchResume(ms, bs, path) ==
  LET f == IF path = "bin" THEN bin ELSE tmp IN
  /\ NotRunning
  /\ runs < MaxRuns
  /\ Loadable(f)
  /\ runs' = runs + 1
  /\ args' = SetupTraining(MergeArgs(ParseArguments(ms, bs, path), f.args))
  /\ checkpoint' = f
  /\ initial_epoch' = InitialEpoch(f)
  /\ EnterLoop(InitialEpoch(f), f.global_step, LoadModel(f), f.optimizer,
               f.scheduler, f.grad_scaler)
  /\ renamed' = FALSE
  /\ crash_pc' = "none"
  /\ UNCHANGED <<bin, tmp, pvars, xvars, resumevars>>

(***************************************************************************)
(* train.py: load_dataset                                                  *)
(***************************************************************************)
\* Dataset(train_path, ...); min_length = len(train_data) // batch_size // 16;
\* the rank enters all_reduce
LoadDataset(r, n) ==
  /\ pc[r] = "load"
  /\ epoch[r] < MaxEpoch
  /\ train_index' = [train_index EXCEPT ![r] = TrainIndex(r, epoch[r], args)]
  /\ data_len' = [data_len EXCEPT ![r] = n]
  /\ max_local_steps' =
       [max_local_steps EXCEPT ![r] = LocalLength(n, args["batch_size"])]
  /\ pc' = [pc EXCEPT ![r] = "reduce"]
  /\ UNCHANGED <<resumevars, jobvars, filevars, pvars, xvars, epoch, global_step, local_step,
                 start_step, model, optimizer, scheduler, grad_scaler>>

\* every rank has entered all_reduce(min_length, MIN): the collective
\* completes, load_dataset returns and training_epoch is entered
AllReduceMin ==
  /\ \A r \in Ranks : pc[r] = "reduce"
  /\ max_local_steps' = [r \in Ranks |-> ReduceMin(max_local_steps)]
  /\ start_step' = global_step
  /\ local_step' = [r \in Ranks |-> -1]
  /\ pc' = [r \in Ranks |-> "loop"]
  /\ UNCHANGED <<resumevars, jobvars, filevars, pvars, xvars, epoch, global_step, data_len,
                 train_index, model, optimizer, scheduler, grad_scaler>>

(***************************************************************************)
(* train.py: training_epoch                                                *)
(***************************************************************************)
\* for local_step, batch in enumerate(train_iter): the next batch, forward
\* pass and entry into loss.backward(), or the end of the dataloader
FetchBatch(r) ==
  /\ pc[r] = "loop"
  /\ IF local_step[r] + 1 < NumBatches(data_len[r], args["batch_size"])
       THEN /\ local_step' = [local_step EXCEPT ![r] = @ + 1]
            /\ pc' = [pc EXCEPT ![r] = "backward"]
       ELSE /\ local_step' = local_step
            /\ pc' = [pc EXCEPT ![r] = "save"]
  /\ UNCHANGED <<resumevars, jobvars, filevars, pvars, xvars, epoch, global_step, start_step,
                 data_len, train_index, max_local_steps, model, optimizer,
                 scheduler, grad_scaler>>

\* faulty variant: backward() returns without waiting for the other ranks
GradSyncAlone ==
  /\ \E r \in Ranks :
       /\ pc[r] = "backward"
       /\ pc' = [pc EXCEPT ![r] = "step"]
  /\ UNCHANGED <<resumevars, jobvars, filevars, pvars, xvars, epoch, global_step, local_step,
                 start_step, data_len, train_index, max_local_steps, model,
                 optimizer, scheduler, grad_scaler>>

\* every rank is in backward(): the gradient synchronization completes
GradSync ==
  /\ \A r \in Ranks : pc[r] = "backward"
  /\ pc' = [r \in Ranks |-> "step"]
  /\ UNCHANGED <<resumevars, jobvars, filevars, pvars, xvars, epoch, global_step, local_step,
                 start_step, data_len, train_index, max_local_steps, model,
                 optimizer, scheduler, grad_scaler>>

\* grad_scaler.step(optimizer); grad_scaler.update(); scheduler.step();
\* global_step += 1; the exit test of the loop
ApplyStep(r) ==
  /\ pc[r] = "step"
  /\ model' = [model EXCEPT ![r] = @ + 1]
  /\ optimizer' = [optimizer EXCEPT ![r] = @ + 1]
  /\ grad_scaler' = [grad_scaler EXCEPT ![r] = @ + 1]
  /\ scheduler' = [scheduler EXCEPT ![r] = @ + 1]
  /\ global_step' = [global_step EXCEPT ![r] = @ + 1]
  /\ pc' = [pc EXCEPT ![r] =
              IF ExitEpoch(global_step[r] + 1, local_step[r],
                           max_local_steps[r], args)
                THEN "save" ELSE "loop"]
  /\ UNCHANGED <<resumevars, jobvars, filevars, pvars, xvars, epoch, local_step, start_step,
                 data_len, train_index, max_local_steps>>

(***************************************************************************)
(* train.py: save, and the end of the epoch loop's body                    *)
(***************************************************************************)
\* if global_step >= args.device_max_steps: break; else the next epoch
EndOfEpoch(r) ==
  IF global_step[r] >= args["device_max_steps"]
    THEN /\ pc' = [pc EXCEPT ![r] = "done"]
         /\ epoch' = epoch
    ELSE /\ pc' = [pc EXCEPT ![r] = "load"]
         /\ epoch' = [epoch EXCEPT ![r] = @ + 1]

\* save on a rank that is not the main process: nothing is written
SaveSkip(r) ==
  /\ pc[r] = "save"
  /\ ~IsMainProcess(r)
  /\ EndOfEpoch(r)
  /\ UNCHANGED <<resumevars, jobvars, filevars, pvars, xvars, global_step, local_step,
                 start_step, data_len, train_index, max_local_steps, model,
                 optimizer, scheduler, grad_scaler>>

\* faulty variant: save without the is_main_process() test
CkptRenameAny(r) ==
  /\ pc[r] = "save"
  /\ IF bin.exists
       THEN tmp' = bin /\ bin' = NoFile /\ renamed' = TRUE
       ELSE tmp' = tmp /\ bin' = bin /\ renamed' = FALSE
  /\ pc' = [pc EXCEPT ![r] = "write"]
  /\ UNCHANGED <<resumevars, jobvars, crash_pc, pvars, xvars, epoch, global_step, local_step,
                 start_step, data_len, train_index, max_local_steps, model,
                 optimizer, scheduler, grad_scaler>>

\* if os.path.exists(checkpoint_path): os.rename(checkpoint_path, ..._tmp)
CkptRename(r) ==
  /\ pc[r] = "save"
  /\ IsMainProcess(r)
  /\ IF bin.exists
       THEN tmp' = bin /\ bin' = NoFile /\ renamed' = TRUE
       ELSE tmp' = tmp /\ bin' = bin /\ renamed' = FALSE
  /\ pc' = [pc EXCEPT ![r] = "write"]
  /\ UNCHANGED <<resumevars, jobvars, crash_pc, pvars, xvars, epoch, global_step, local_step,
                 start_step, data_len, train_index, max_local_steps, model,
                 optimizer, scheduler, grad_scaler>>

\* torch.save opens checkpoint_path for writing
CkptOpen(r) ==
  /\ pc[r] = "write"
  /\ bin' = PartialFile
  /\ pc' = [pc EXCEPT ![r] = "writing"]
  /\ UNCHANGED <<resumevars, jobvars, tmp, renamed, crash_pc, pvars, xvars, epoch, global_step,
                 local_step, start_step, data_len, train_index,
                 max_local_steps, model, optimizer, scheduler, grad_scaler>>

\* the dictionary torch.save writes
Snapshot(r) ==
  [exists |-> TRUE, complete |-> TRUE, model |-> model[r],
   optimizer |-> optimizer[r], grad_scaler |-> grad_scaler[r],
   scheduler |-> scheduler[r], global_step |-> global_step[r],
   epoch |-> epoch[r], args |-> args]

\* torch.save has written and closed the file; save returns
CkptWrite(r) ==
  /\ pc[r] = "writing"
  /\ bin' = Snapshot(r)
  /\ EndOfEpoch(r)
  /\ UNCHANGED <<resumevars, jobvars, tmp, renamed, crash_pc, pvars, xvars, global_step,
                 local_step, start_step, data_len, train_index,
                 max_local_steps, model, optimizer, scheduler, grad_scaler>>

\* the job is killed: every rank dies, the files stay as they are
JobCrash ==
  /\ ~NotRunning
  /\ crash_pc' = pc[0]
  /\ pc' = [r \in Ranks |-> "off"]
  /\ epoch' = [r \in Ranks |-> 0]
  /\ global_step' = [r \in Ranks |-> 0]
  /\ local_step' = [r \in Ranks |-> -1]
  /\ start_step' = [r \in Ranks |-> 0]
  /\ data_len' = [r \in Ranks |-> 0]
  /\ train_index' = [r \in Ranks |-> 0]
  /\ max_local_steps' = [r \in Ranks |-> 0]
  /\ model' = [r \in Ranks |-> 0]
  /\ optimizer' = [r \in Ranks |-> 0]
  /\ scheduler' = [r \in Ranks |-> 0]
  /\ grad_scaler' = [r \in Ranks |-> 0]
  /\ checkpoint' = NoFile
  /\ initial_epoch' = 0
  /\ args' = NoArgs
  /\ UNCHANGED <<runs, bin, tmp, renamed, pvars, xvars, resumevars>>

(***************************************************************************)
(* Specification of the training job.                                      *)
(***************************************************************************)
Init == TrainIdle /\ ResumeIdle /\ ProcIdle /\ OthersIdle

Next ==
  \/ \E ms \in MaxStepsSet, bs \in BatchSizes : LaunchFresh(ms, bs)
  \/ \E ms \in MaxStepsSet, bs \in BatchSizes, path \in {"bin", "tmp"} :
       LaunchResume(ms, bs, path)
  \/ \E r \in Ranks, n \in DataLens : LoadDataset(r, n)
  \/ AllReduceMin
  \/ \E r \in Ranks : FetchBatch(r)
  \/ GradSync
  \/ \E r \in Ranks : ApplyStep(r)
  \/ \E r \in Ranks : SaveSkip(r)
  \/ \E r \in Ranks : CkptRename(r)
  \/ \E r \in Ranks : CkptOpen(r)
  \/ \E r \in Ranks : CkptWrite(r)
  \/ JobCrash

Spec == Init /\ [][Next]_vars

(***************************************************************************)
(* train.py: the resume path of __main__ on arbitrary namespaces.          *)
(***************************************************************************)
\* lines 310-314: the checkpoint's args are merged into the parsed ones
ResolveArgs ==
  /\ rpc = "parsed"
  /\ rargs' = MergeArgs(rcli, rckpt)
  /\ rpc' = "merged"
  /\ UNCHANGED <<rcli, rckpt, jobvars, rankvars, filevars, pvars, xvars>>

\* line 320: setup_training assigns its fields
SetupArgs ==
  /\ rpc = "merged"
  /\ rargs' = SetupTraining(rargs)
  /\ rpc' = "setup"
  /\ UNCHANGED <<rcli, rckpt, jobvars, rankvars, filevars, pvars, xvars>>

InitArgs ==
  /\ OthersIdle
  /\ TrainIdle
  /\ ProcIdle
  /\ rpc = "parsed"
  /\ rcli \in { f \in Namespaces(CliFields, CliValues) : DOMAIN f = CliFields }
  /\ rckpt \in Namespaces(CkptFields, CkptValues)
  /\ rargs = rcli

NextArgs ==
  \/ ResolveArgs
  \/ SetupArgs

SpecArgs == InitArgs /\ [][NextArgs]_vars

(***************************************************************************)
(* train.py: what every rank derives from the process environment.  The    *)
(* ranks of the job move together: setup_training, then per epoch          *)
(* load_dataset, training_epoch and save.                                  *)
(***************************************************************************)
JobRanks == RanksOf(env.world_size)

\* the value of a per-rank variable that was not computed yet
Unset == [r \in JobRanks |-> -1]

\* setup_training: local_rank = rank - gpus_per_node * (rank // gpus_per_node)
EnvSetup ==
  /\ jpc = "setup"
  /\ local_rank' = [r \in JobRanks |-> LocalRank(r, env.gpus_per_node)]
  /\ jpc' = "load"
  /\ UNCHANGED <<env, jepoch, saved, resumed, shard, seed, loaded>>
  /\ UNCHANGED <<pvars, jobvars, rankvars, filevars, resumevars, outvars>>

\* load_dataset: train_index on every rank
EnvLoad ==
  /\ jpc = "load"
  /\ jepoch < MaxEpoch
  /\ shard' = [r \in JobRanks |->
                 TrainIndexOf(r, jepoch, env.world_size, env.n_training_files)]
  /\ jpc' = "train"
  /\ UNCHANGED <<env, jepoch, saved, resumed, local_rank, seed, loaded>>
  /\ UNCHANGED <<pvars, jobvars, rankvars, filevars, resumevars, outvars>>

\* training_epoch: create_train_dataloader(data, args, global_step, seed)
EnvTrain ==
  /\ jpc = "train"
  /\ seed' = [r \in JobRanks |->
                ShuffleSeed(env.seed, r, jepoch, env.world_size)]
  /\ loaded' = loaded \cup
       { [rank |-> r, epoch |-> jepoch, train_index |-> shard[r],
          seed |-> seed'[r], resumed |-> resumed] : r \in JobRanks }
  /\ jpc' = "save"
  /\ UNCHANGED <<env, jepoch, saved, resumed, local_rank, shard>>
  /\ UNCHANGED <<pvars, jobvars, rankvars, filevars, resumevars, outvars>>

\* save writes "epoch": epoch; the loop goes on to the next epoch
EnvSave ==
  /\ jpc = "save"
  /\ saved' = jepoch
  /\ jepoch' = jepoch + 1
  /\ jpc' = "load"
  /\ UNCHANGED <<env, resumed, local_rank, shard, seed, loaded>>
  /\ UNCHANGED <<pvars, jobvars, rankvars, filevars, resumevars, outvars>>

\* the job is killed and launched again, with the same environment, from
\* model.bin (epoch saved) or model.bin_tmp (the epoch before):
\* initial_epoch = checkpoint["epoch"] + 1
EnvResume(k) ==
  /\ jpc \in {"load", "train", "save"}
  /\ k \in {saved, saved - 1}
  /\ k >= 0
  /\ jepoch' = InitialEpoch([epoch |-> k])
  /\ resumed' = TRUE
  /\ jpc' = "setup"
  /\ local_rank' = Unset
  /\ shard' = Unset
  /\ seed' = Unset
  /\ UNCHANGED <<env, saved, loaded>>
  /\ UNCHANGED <<pvars, jobvars, rankvars, filevars, resumevars, outvars>>

InitEnv ==
  /\ TrainIdle
  /\ ResumeIdle
  /\ ProcIdle
  /\ OutIdle
  /\ env \in [world_size : 1..MaxWorld, gpus_per_node : 1..MaxGpus,
               seed : BaseSeeds, n_training_files : 1..MaxTrainFiles]
  /\ jpc = "setup"
  /\ jepoch = 0
  /\ saved = -1
  /\ resumed = FALSE
  /\ local_rank = Unset
  /\ shard = Unset
  /\ seed = Unset
  /\ loaded = {}

NextEnv ==
  \/ EnvSetup
  \/ EnvLoad
  \/ EnvTrain
  \/ EnvSave
  \/ \E k \in 0..MaxEpoch : EnvResume(k)

SpecEnv == InitEnv /\ [][NextEnv]_vars

(***************************************************************************)
(* no_tokenize.py: Processor.save on every rank of the tokenizing job,     *)
(* the ranks running in parallel.                                          *)
(***************************************************************************)
\* with gzip.open(self.output_path.format(RANK * 8 + i), mode='wb') as f
OutOpen(r) ==
  /\ ~wopen[r]
  /\ wi[r] < NShards
  /\ wopen' = [wopen EXCEPT ![r] = TRUE]
  /\ owners' = [owners EXCEPT ![OutputIndex(r, wi[r])] = @ \cup {<<r, wi[r]>>}]
  /\ UNCHANGED <<wi, pvars, jobvars, rankvars, filevars, resumevars, envvars>>

\* pickle.dump(...); the with block closes the file; the next i
OutClose(r) ==
  /\ wopen[r]
  /\ wopen' = [wopen EXCEPT ![r] = FALSE]
  /\ wi' = [wi EXCEPT ![r] = @ + 1]
  /\ UNCHANGED <<owners, pvars, jobvars, rankvars, filevars, resumevars, envvars>>

InitOut ==
  /\ TrainIdle
  /\ ResumeIdle
  /\ ProcIdle
  /\ OthersIdle

NextOut ==
  \/ \E r \in TokRanks : OutOpen(r)
  \/ \E r \in TokRanks : OutClose(r)

SpecOut == InitOut /\ [][NextOut]_vars

(***************************************************************************)
(* Properties of Processor.load_and_tokenize and Processor.save.           *)
(***************************************************************************)
\* the input line sequence: the first file's lines, then the second's
InputLines == ncc \o c4

IsBlank(L, k) == Strip(L[k]) = <<>>

\* the first lines of the maximal runs of non-blank lines of L
RunStarts(L) ==
  { a \in 1..Len(L) : ~IsBlank(L, a) /\ (a = 1 \/ IsBlank(L, a - 1)) }

\* the last line of the maximal run that starts at a
RunEnd(L, a) ==
  CHOOSE b \in a..Len(L) :
    /\ \A k \in a..b : ~IsBlank(L, k)
    /\ (b = Len(L) \/ IsBlank(L, b + 1))

\* the token arrays of the lines a..b whose tokenization is non-empty
RunArrays(L, a, b) ==
  LET toks == [k \in 1..(b - a + 1) |-> Encode(Strip(L[a + k - 1]))]
  IN  SelectSeq(toks, LAMBDA t : t # <<>>)

\* the runs of L in input order, as documents, the empty ones dropped
RECURSIVE RunsFrom(_, _)
RunsFrom(L, starts) ==
  IF starts = {} THEN <<>>
  ELSE LET a == CHOOSE x \in starts : \A y \in starts : x <= y
           d == RunArrays(L, a, RunEnd(L, a))
       IN  (IF d = <<>> THEN <<>> ELSE <<d>>) \o RunsFrom(L, starts \ {a})

ExpectedDocuments(L) == RunsFrom(L, RunStarts(L))

\* C10: when load_and_tokenize has returned, self.documents holds, in input
\* order, one document per maximal run of non-blank lines of the input,
\* each with one token array per line whose tokenization is non-empty, and
\* no document with zero arrays.
C10_Documents ==
  ppc = "loaded" =>
    /\ documents = ExpectedDocuments(InputLines)
    /\ \A k \in 1..Len(documents) : Len(documents[k]) > 0

\* the lines ["hello world", "", "foo", "bar", ""] were read and gave two
\* documents, of 1 and 2 arrays
C10_Witness ==
  /\ ppc = "loaded"
  /\ InputLines = << <<"hello", " ", "world">>, <<>>, <<"foo">>, <<"bar">>, <<>> >>
  /\ documents = << << <<1, 2>> >>, << <<3>>, <<4>> >> >>

\* the positions of D (from 0) that artifact i holds: i, i+8, i+16, ...
PositionsOf(D, i) == { p \in 0..(Len(D) - 1) : p % NShards = i }

\* the documents at the positions of artifact i, in their original order
ExpectedArtifact(D, i) ==
  [k \in 1..Cardinality(PositionsOf(D, i)) |-> D[i + (k - 1) * NShards + 1]]

\* C1: when save has returned, exactly the 8 artifacts RANK*8+0..RANK*8+7
\* exist, artifact i holds the documents at positions i, i+8, i+16, ... of
\* self.documents in order, and every position of self.documents is held
\* by exactly one artifact.
C1_RoundRobin ==
  ppc = "saved" =>
    /\ { n \in OutputNames : out[n].exists }
         = { OutputIndex(RANK, i) : i \in 0..(NShards - 1) }
    /\ \A i \in 0..(NShards - 1) :
         /\ out[OutputIndex(RANK, i)].complete
         /\ out[OutputIndex(RANK, i)].docs = ExpectedArtifact(documents, i)
    /\ \A p \in 0..(Len(documents) - 1) :
         /\ documents[p + 1]
              = out[OutputIndex(RANK, p % NShards)].docs[p \div NShards + 1]
         /\ Cardinality({ i \in 0..(NShards - 1) : p \in PositionsOf(documents, i) }) = 1

\* save has returned for more than 8 documents: artifact 0 holds two
C1_Witness ==
  /\ ppc = "saved"
  /\ Len(documents) > NShards
  /\ Len(out[OutputIndex(RANK, 0)].docs) = 2

\* C9: when save was killed, every artifact that exists under a final
\* output name is complete.
C9_AllOrNothing ==
  ppc = "crashed" => \A n \in OutputNames : out[n].exists => out[n].complete


(***************************************************************************)
(* Properties of the training job.                                         *)
(***************************************************************************)
\* every rank holds the result of this epoch's reduction and its shard
Reduced ==
  \A q \in Ranks : pc[q] \in {"loop", "backward", "step", "save", "write", "writing"}

MinOver(t) == CHOOSE m \in { t[r] : r \in Ranks } : \A q \in Ranks : m <= t[q]

\* C2 as stated: the epoch length every rank gets from load_dataset is the
\* minimum over the ranks of len(shard) // batch_size.
C2_MinOfBatches ==
  Reduced =>
    \A r \in Ranks :
      max_local_steps[r]
        = MinOver([q \in Ranks |-> data_len[q] \div args["batch_size"]])

\* C2 amended: the epoch length every rank gets from load_dataset is the
\* minimum over the ranks of (len(shard) // batch_size) // 16.
C2_MinOfSixteenth ==
  Reduced =>
    \A r \in Ranks :
      max_local_steps[r]
        = MinOver([q \in Ranks |-> (data_len[q] \div args["batch_size"]) \div 16])

\* two ranks with shards of 70 and 10 examples have got the same length
C2_Witness ==
  /\ Reduced
  /\ \E r, q \in Ranks : data_len[r] = 70 /\ data_len[q] = 10
  /\ \A r \in Ranks : max_local_steps[r] = 0

\* a rank that has left training_epoch
LeftEpoch(q) == pc[q] \in {"save", "write", "writing", "load", "reduce", "done"}

\* C3: all ranks execute the same number of optimizer steps in every epoch:
\* no rank waits in a gradient synchronization that another rank, having
\* left training_epoch, never joins, and the ranks that are at the same
\* epoch boundary have the same global_step.
C3_SameSteps ==
  /\ \A r, q \in Ranks : ~(pc[r] = "backward" /\ LeftEpoch(q))
  /\ \A r, q \in Ranks :
       (pc[r] \in {"save", "write", "writing"} /\ pc[q] \in {"save", "write", "writing"}
          /\ epoch[r] = epoch[q])
         => global_step[r] = global_step[q]

\* C4: in every epoch every rank executes at most
\* min(max_steps - global_step at the start of the epoch, agreed length)
\* optimizer steps, and global_step never exceeds max_steps.
C4_StepBudget ==
  \A r \in Ranks :
    /\ pc[r] # "off" => global_step[r] <= args["max_steps"]
    /\ pc[r] \in {"loop", "backward", "step", "save", "write", "writing"} =>
         global_step[r] - start_step[r]
           <= Min(args["max_steps"] - start_step[r], max_local_steps[r])

\* C5: when the job was killed inside save after model.bin was renamed to
\* model.bin_tmp and before the new model.bin was complete, model.bin_tmp
\* is a complete checkpoint.
C5_BackupComplete ==
  (crash_pc \in {"write", "writing"} /\ renamed) => Loadable(tmp)

\* the step of a launch that loads a checkpoint
Resumed == runs' = runs + 1 /\ checkpoint' # NoFile

\* the step in which rank r's torch.save completes
Written(r) == pc[r] = "writing" /\ pc'[r] \notin {"writing", "off"}

\* C6: save writes the epoch, the step counter and the optimizer, scheduler
\* and scaler state the main process has at the end of the epoch, and a
\* launch that loads a checkpoint starts every rank at the stored epoch
\* plus one, with the stored step counter and the stored optimizer,
\* scheduler and scaler state.
C6_RoundTrip ==
  [][ /\ \A r \in Ranks :
           Written(r) =>
             /\ Loadable(bin')
             /\ bin'.epoch = epoch[r]
             /\ bin'.global_step = global_step[r]
             /\ bin'.optimizer = optimizer[r]
             /\ bin'.scheduler = scheduler[r]
             /\ bin'.grad_scaler = grad_scaler[r]
      /\ Resumed =>
           /\ checkpoint' \in {bin, tmp}
           /\ Loadable(checkpoint')
           /\ initial_epoch' = checkpoint'.epoch + 1
           /\ \A r \in Ranks :
                /\ pc'[r] = "load"
                /\ epoch'[r] = checkpoint'.epoch + 1
                /\ global_step'[r] = checkpoint'.global_step
                /\ optimizer'[r] = checkpoint'.optimizer
                /\ scheduler'[r] = checkpoint'.scheduler
                /\ grad_scaler'[r] = checkpoint'.grad_scaler
    ]_vars

\* a run resumed from a checkpoint of a later epoch with steps done is at
\* the start of its first epoch
C6_Witness ==
  /\ checkpoint # NoFile
  /\ checkpoint.epoch > 0
  /\ checkpoint.global_step > 0
  /\ \A r \in Ranks :
       /\ pc[r] = "load"
       /\ epoch[r] = checkpoint.epoch + 1
       /\ global_step[r] = checkpoint.global_step
       /\ optimizer[r] = checkpoint.optimizer

C8_CheckpointWins ==
  /\ rpc = "merged" =>
       /\ DOMAIN rargs = DOMAIN rcli \cup DOMAIN rckpt
       /\ \A k \in DOMAIN rargs :
            rargs[k] = IF k \in DOMAIN rckpt THEN rckpt[k] ELSE rcli[k]
  /\ rpc = "setup" =>
       \A k \in DOMAIN rckpt \ SetupFields : rargs[k] = rckpt[k]

\* a checkpoint with another max_steps than the command line, and without
\* batch_size, has been merged
C8_Witness ==
  /\ rpc = "merged"
  /\ "max_steps" \in DOMAIN rckpt
  /\ rckpt["max_steps"] # rcli["max_steps"]
  /\ rargs["max_steps"] = rckpt["max_steps"]
  /\ "batch_size" \notin DOMAIN rckpt
  /\ rargs["batch_size"] = rcli["batch_size"]

(***************************************************************************)
(* Properties of save across the ranks.                                    *)
(***************************************************************************)
\* the rank is inside save
InSave(r) == pc[r] \in {"save", "write", "writing"}

\* the step ends the rank's epoch: the driver goes on or breaks
EndsEpoch(r) ==
  /\ pc[r] \notin {"off", "done"}
  /\ \/ pc'[r] = "done"
     \/ pc'[r] = "load" /\ epoch'[r] = epoch[r] + 1

\* C11: a step that changes model.bin or model.bin_tmp is a step of the main
\* process inside save and moves no other rank, and the main process ends
\* no epoch without model.bin holding the complete checkpoint of that epoch.
C11_OnlyMainWrites ==
  [][ /\ (bin' # bin \/ tmp' # tmp) =>
           /\ \E r \in Ranks : IsMainProcess(r) /\ InSave(r) /\ pc'[r] # pc[r]
           /\ \A q \in Ranks : ~IsMainProcess(q) => pc'[q] = pc[q]
      /\ \A r \in Ranks :
           (IsMainProcess(r) /\ EndsEpoch(r)) =>
             /\ pc[r] = "writing"
             /\ Loadable(bin')
             /\ bin'.epoch = epoch[r]
             /\ bin'.global_step = global_step[r]
             /\ bin'.model = model[r]
    ]_vars

\* two epochs were saved, and every rank has left the second save
C11_Witness ==
  /\ Loadable(bin) /\ Loadable(tmp)
  /\ bin.epoch = 1 /\ tmp.epoch = 0
  /\ \A r \in Ranks : epoch[r] = 2 /\ pc[r] = "load"

\* the main process has begun to change the checkpoint files of its epoch
Writing(r) == IsMainProcess(r) /\ pc[r] \in {"write", "writing"}

\* the rank holds a synchronized gradient whose optimizer step it has not
\* applied yet
StepPending(q) == pc[q] = "step"

\* C12 as stated: while the main process writes the checkpoint of an epoch,
\* no rank has an optimizer step of that epoch still to apply.
C12_WriteAfterAllSteps ==
  \A r \in Ranks : Writing(r) =>
    \A q \in Ranks : ~(StepPending(q) /\ epoch[q] = epoch[r])

\* C12 amended: while the main process writes the checkpoint of an epoch, it
\* has applied every step of its own batches of that epoch, and every other
\* rank has applied the same steps except at most the last one, whose
\* gradient synchronization it has completed and which it is about to apply.
C12_WriteAfterOwnSteps ==
  \A r \in Ranks : Writing(r) =>
    /\ global_step[r] - start_step[r] = local_step[r] + 1
    /\ \A q \in Ranks :
         /\ global_step[q] >= global_step[r] - 1
         /\ global_step[q] < global_step[r] =>
              (StepPending(q) /\ epoch[q] = epoch[r])

\* the main process is inside torch.save while another rank has yet to
\* apply the last step of the epoch
C12_Witness ==
  \E r, q \in Ranks :
    /\ Writing(r) /\ pc[r] = "writing"
    /\ StepPending(q) /\ epoch[q] = epoch[r]
    /\ global_step[q] = global_step[r] - 1
    /\ global_step[r] > start_step[r]

(***************************************************************************)
(* Properties of the epoch loop of __main__.                               *)
(***************************************************************************)
\* the rank is inside the epoch loop
InEpochLoop(r) == pc[r] \notin {"off", "done"}

\* the rank has entered training_epoch in its current epoch
InTrainingEpoch(r) ==
  pc[r] \in {"loop", "backward", "step", "save", "write", "writing"}

\* a step of some rank of the running job
DriverStep ==
  \/ \E r \in Ranks, n \in DataLens : LoadDataset(r, n)
  \/ AllReduceMin
  \/ \E r \in Ranks : FetchBatch(r)
  \/ GradSync
  \/ \E r \in Ranks : ApplyStep(r)
  \/ \E r \in Ranks : SaveSkip(r)
  \/ \E r \in Ranks : CkptRename(r)
  \/ \E r \in Ranks : CkptOpen(r)
  \/ \E r \in Ranks : CkptWrite(r)

\* C13: a rank that has stopped has global_step >= max_steps; a rank that
\* went on to a further epoch had global_step < max_steps at the end of the
\* epoch before; epoch and global_step are never below what the run started
\* from; and as long as some rank is in the epoch loop the job can take a
\* step, so that under fair scheduling it reaches the stop.
C13_StopsAtBudget ==
  /\ \A r \in Ranks : pc[r] = "done" => global_step[r] >= args["max_steps"]
  /\ \A r \in Ranks :
       (InEpochLoop(r) /\ epoch[r] > initial_epoch) =>
         IF InTrainingEpoch(r)
           THEN start_step[r] < args["max_steps"]
           ELSE global_step[r] < args["max_steps"]
  /\ \A r \in Ranks :
       InEpochLoop(r) =>
         /\ epoch[r] >= initial_epoch
         /\ global_step[r] >= start_step[r]
         /\ checkpoint # NoFile => start_step[r] >= checkpoint.global_step
  /\ ((\E r \in Ranks : InEpochLoop(r)) /\ (\A r \in Ranks : epoch[r] < MaxEpoch))
       => ENABLED DriverStep

(***************************************************************************)
(* Properties of the values derived from the process environment.          *)
(***************************************************************************)
\* C14: on every rank of every job, the seed given to the shuffling
\* generator in an epoch is base_seed + rank + epoch * world_size.
C14_SeedFormula ==
  /\ jpc = "save" =>
       \A r \in JobRanks : seed[r] = env.seed + r + jepoch * env.world_size
  /\ \A x \in loaded : x.seed = env.seed + x.rank + x.epoch * env.world_size

\* a job of several ranks has drawn the seeds of an epoch after the first
C14_Witness ==
  /\ jpc = "save"
  /\ env.world_size = MaxWorld
  /\ env.seed = DefaultSeed
  /\ jepoch >= 2
  /\ seed[MaxWorld - 1] = DefaultSeed + (MaxWorld - 1) + jepoch * MaxWorld

\* C15: after setup_training, on every rank of every job the local device
\* index is rank mod gpus_per_node (and so a device index of the node).
C15_LocalRankIsMod ==
  jpc \in {"load", "train", "save"} =>
    \A r \in JobRanks :
      /\ local_rank[r] = r % env.gpus_per_node
      /\ local_rank[r] \in 0..(env.gpus_per_node - 1)

\* a rank of the second node of a job with several devices per node
C15_Witness ==
  /\ jpc = "load"
  /\ env.gpus_per_node >= 2
  /\ \E r \in JobRanks :
       /\ r >= env.gpus_per_node
       /\ local_rank[r] = r - env.gpus_per_node

(***************************************************************************)
(* Properties of load_and_tokenize at the boundary of its two files.       *)
(***************************************************************************)
\* C16: when load_and_tokenize has returned, self.documents holds the
\* documents of the first file followed by the documents of the second
\* file, each file split at its blank lines and at its end, so that no
\* document holds lines of both files.
C16_SealedPerFile ==
  ppc = "loaded" =>
    documents = ExpectedDocuments(ncc) \o ExpectedDocuments(c4)

(***************************************************************************)
(* Properties of the two checkpoint files over kills and resumes.          *)
(***************************************************************************)
\* model.bin or model.bin_tmp is a complete checkpoint
OneComplete == Loadable(bin) \/ Loadable(tmp)

\* every launch after the first one resumed from a checkpoint file
OnlyResumes == runs > 1 => (NotRunning \/ checkpoint # NoFile)

\* C17: once model.bin or model.bin_tmp is a complete checkpoint, no step of
\* save, no kill of the job and no resume from either file leaves a state in
\* which neither of them is.
C17_AlwaysOneComplete ==
  [][ (OneComplete /\ OnlyResumes) => OneComplete' ]_vars

(***************************************************************************)
(* Properties of the output files of the tokenizing job.                   *)
(***************************************************************************)
\* C18: no output file is opened for writing by two different pairs
\* (rank, i), whichever way the ranks' save loops interleave.
C18_DistinctOutputs ==
  \A n \in OutputNames : Cardinality(owners[n]) <= 1

\* every rank has finished save, and each of the 8 * (MaxRank + 1) output
\* files was written by exactly one pair (rank, i)
C18_Witness ==
  /\ \A r \in TokRanks : wi[r] = NShards /\ ~wopen[r]
  /\ \A n \in OutputNames : Cardinality(owners[n]) = 1
  /\ owners[OutputIndex(MaxRank, NShards - 1)] = {<<MaxRank, NShards - 1>>}

\* the (rank, epoch) pairs for which a shuffling seed was drawn
SeededPairs == { <<x.rank, x.epoch>> : x \in loaded }

\* C19: within a job (one base seed, one world size), the shuffling seeds
\* drawn for two different pairs (rank, epoch) are different.
C19_SeedsDistinct ==
  \A x, y \in loaded :
    (x.rank # y.rank \/ x.epoch # y.epoch) => x.seed # y.seed

\* a job of MaxWorld ranks has drawn the seeds of three epochs: rank 0 of
\* one epoch and the last rank of the epoch before differ by one
C19_Witness ==
  /\ env.world_size = MaxWorld
  /\ Cardinality(SeededPairs) >= 3 * MaxWorld
  /\ \E x, y \in loaded :
       /\ x.rank = 0 /\ y.rank = MaxWorld - 1
       /\ x.epoch = y.epoch + 1
       /\ x.seed = y.seed + 1

\* C20: in an epoch of a job whose world size is at most the number of
\* training shards, two different ranks load different shards; and a rank
\* of a resumed job loads in an epoch the shard that the rank loads in that
\* epoch of a job that was not interrupted.
C20_ShardsPerRank ==
  /\ (jpc \in {"train", "save"} /\ env.world_size <= env.n_training_files) =>
       \A r, q \in JobRanks : r # q => shard[r] # shard[q]
  /\ \A x, y \in loaded :
       (x.rank = y.rank /\ x.epoch = y.epoch) => x.train_index = y.train_index
  /\ \A x \in loaded :
       x.train_index = (x.rank + x.epoch * env.world_size) % env.n_training_files

\* a job of several ranks with enough shards was killed in epoch 1 or later
\* and resumed; the resumed job has loaded the shards of that epoch again
C20_Witness ==
  /\ env.world_size >= 2
  /\ env.world_size <= env.n_training_files
  /\ jpc = "save"
  /\ jepoch >= 1
  /\ resumed
  /\ \A r \in JobRanks :
       \E x, y \in loaded :
         /\ x.rank = r /\ y.rank = r
         /\ x.epoch = jepoch /\ y.epoch = jepoch
         /\ x.resumed /\ ~y.resumed
         /\ x.train_index = shard[r]

=============================================================================
